---- MODULE Spec2Model ----
(***************************************************************************)
(* Node connection lifecycle (Node.ts) and per-guild Player state machine  *)
(* (Player.ts) of vulkava.                                                 *)
(*                                                                         *)
(* NodeSpec   : the Nodes as constructed, driven by the application's      *)
(*              connect()/disconnect()/send(), the ws transport events and *)
(*              the retry timers.                                          *)
(* PlayerSpec : one guild's Player, created and driven by the application  *)
(*              over Nodes whose connection state is drawn at Init:        *)
(*              creation, voice connection, the queue, playback commands.  *)
(* MoveSpec   : the same Player with its voice credentials and status      *)
(*              reports, migrated between the Nodes by moveNode().         *)
(***************************************************************************)
EXTENDS Integers, Sequences, FiniteSets, TLC

\* ------------------------------------------------------------------ bounds
MaxAttempts == 1       \* connect()/transport-failure budget per node
MaxQueue == 3          \* longest queue the application builds
MaxPos == 1            \* largest position / duration (ms)
MaxAmount == 3         \* largest skip(amount)
MaxNow == 3            \* last wall-clock instant (ms)
MaxSends == 2          \* longest run of successive send() calls; payload ids

\* the configured nodes (vulkava.nodes), in configuration order
Nodes == 1..3
Undefined == 0         \* JS undefined, where a Node reference is expected
Gateway == -1          \* vulkava.sendWS: the voice gateway, not a Node
NoArg == -1            \* an absent numeric field of a payload

\* ------------------------------------------------------ program constants
DefaultMaxRetryAttempts == 10
DISCONNECTED == "DISCONNECTED"
CONNECTING == "CONNECTING"
CONNECTED == "CONNECTED"
State == {CONNECTING, CONNECTED, DISCONNECTED}

\* NodeOptions of the configured nodes: "undefined" is an option left out.
Options ==
  [n \in Nodes |->
     [maxRetryAttempts |-> IF n = 1 THEN "undefined" ELSE IF n = 2 THEN "1" ELSE "0",
      resumeKey        |-> n # 2]]

\* this.options.maxRetryAttempts ?? 10
MaxRetryAttemptsOf(n) ==
  IF Options[n].maxRetryAttempts = "undefined" THEN DefaultMaxRetryAttempts
  ELSE IF Options[n].maxRetryAttempts = "1" THEN 1 ELSE 0

\* Tracks: an opaque encodedTrack and a duration.
Tracks == {"A", "B", "C"}
Duration(t) == IF t = "A" THEN 0 ELSE IF t = "B" THEN 1 ELSE MaxPos
Null == "null"
UndefinedTrack == "undefined"

Loads == {2, 5, 8}     \* stats.players values

VARIABLES
  \* ---- Node (one per configured node)
  nodeState,        \* Node.state
  retryAttempts,    \* Node.retryAttempts
  ws,               \* Node.ws: "null", or the readiness of the WebSocket
  resumed,          \* Node.resumed: "undefined" or "true"
  timers,           \* pending setTimeout(() => this.connect()) callbacks
  \* ---- Player (one guild)
  players,          \* vulkava.players has the guild
  node,             \* Player.node
  voiceChannelId,   \* Player.voiceChannelId is non-empty
  current,          \* Player.current
  queue,            \* Player.queue
  trackRepeat,      \* Player.trackRepeat
  position,         \* Player.position
  positionTimestamp,\* Player.positionTimestamp
  playing,          \* Player.playing
  paused,           \* Player.paused
  state,            \* Player.state
  voiceState,       \* Player.voiceState has credentials
  moving,           \* Player.moving
  \* ---- the wall clock
  now,              \* Date.now()
  \* ---- what the last operation did
  last,             \* the operation, its inputs (stats: a vector input) and how it ended
  cmds              \* the payloads it handed to Node.send / sendWS, in order

nodeVars == <<nodeState, retryAttempts, ws, resumed, timers>>
playerVars == <<players, node, voiceChannelId, current, queue, trackRepeat,
                position, positionTimestamp, playing, paused, state, voiceState,
                moving>>
vars == <<nodeState, retryAttempts, ws, resumed, timers,
          players, node, voiceChannelId, current, queue, trackRepeat,
          position, positionTimestamp, playing, paused, state, voiceState, moving,
          now, last, cmds>>

\* A payload handed to Node.send(n, ...) or to sendWS; written tells whether
\* Node.send passed its guard and called ws.send.
Cmd(to, op, track, arg, written) ==
  [to |-> to, op |-> op, track |-> track, arg |-> arg, written |-> written]

Last(op, n, arg, flag, result) ==
  [op |-> op, node |-> n, arg |-> arg, flag |-> flag, result |-> result, stats |-> <<>>]

\* ================================================================== Node
SendPassesWhileConnecting(n) == nodeState[n] # DISCONNECTED /\ ws[n] # Null

\* Node.send: the guard; ws.OPEN is the constant 1 on every WebSocket.
SendPasses(n) == nodeState[n] = CONNECTED /\ ws[n] # Null

NodeSend(n, op, track, arg) == Cmd(n, op, track, arg, SendPasses(n))

\* constructor
NodeInit ==
  /\ nodeState = [n \in Nodes |-> DISCONNECTED]
  /\ retryAttempts = [n \in Nodes |-> -1]
  /\ ws = [n \in Nodes |-> Null]
  /\ resumed = [n \in Nodes |-> "undefined"]
  /\ timers = [n \in Nodes |-> 0]

ConnectBodyCountsEveryCall(n) ==
  /\ retryAttempts' = [retryAttempts EXCEPT ![n] = @ + 1]
  /\ IF nodeState[n] # DISCONNECTED
     THEN UNCHANGED <<nodeState, ws>>
     ELSE /\ nodeState' = [nodeState EXCEPT ![n] = CONNECTING]
          /\ ws' = [ws EXCEPT ![n] = "handshake"]

ConnectBodyUnguarded(n) ==
  /\ retryAttempts' = [retryAttempts EXCEPT ![n] = @ + 1]
  /\ nodeState' = [nodeState EXCEPT ![n] = CONNECTING]
  /\ ws' = [ws EXCEPT ![n] = "handshake"]

\* connect(): the body, as the application and the retry timer both run it
ConnectBody(n) ==
  IF nodeState[n] # DISCONNECTED
  THEN UNCHANGED <<nodeState, retryAttempts, ws>>
  ELSE /\ retryAttempts' = [retryAttempts EXCEPT ![n] = @ + 1]
       /\ nodeState' = [nodeState EXCEPT ![n] = CONNECTING]
       /\ ws' = [ws EXCEPT ![n] = "handshake"]

Connect(n) ==
  /\ retryAttempts[n] < MaxAttempts
  /\ ConnectBody(n)
  /\ last' = Last("Node.connect", n, NoArg, FALSE,
                  IF nodeState[n] # DISCONNECTED THEN "noop" ELSE "ok")
  /\ cmds' = <<>>
  /\ UNCHANGED <<resumed, timers>>
  /\ UNCHANGED playerVars
  /\ UNCHANGED now

\* the timer scheduled by close() fires
TimerFire(n) ==
  /\ timers[n] > 0
  /\ timers' = [timers EXCEPT ![n] = @ - 1]
  /\ ConnectBody(n)
  /\ last' = Last("timer", n, NoArg, FALSE,
                  IF nodeState[n] # DISCONNECTED THEN "noop" ELSE "ok")
  /\ cmds' = <<>>
  /\ UNCHANGED resumed
  /\ UNCHANGED playerVars
  /\ UNCHANGED now

\* disconnect(): ws.close(1000, ...) starts the closing handshake of an open
\* socket, and aborts the handshake of one that is still connecting.
Disconnect(n) ==
  /\ IF nodeState[n] = DISCONNECTED \/ ws[n] = Null
     THEN UNCHANGED ws
     ELSE ws' = [ws EXCEPT ![n] = IF @ \in {"open", "closing"} THEN "closing"
                                  ELSE "aborted"]
  /\ last' = Last("Node.disconnect", n, NoArg, FALSE,
                  IF nodeState[n] = DISCONNECTED \/ ws[n] = Null THEN "noop" ELSE "ok")
  /\ cmds' = <<>>
  /\ UNCHANGED <<nodeState, retryAttempts, resumed, timers>>
  /\ UNCHANGED playerVars
  /\ UNCHANGED now

\* send(payload), called by the application
Send(n) ==
  /\ last' = Last("Node.send", n, NoArg, FALSE, IF SendPasses(n) THEN "ok" ELSE "noop")
  /\ cmds' = <<NodeSend(n, "raw", Null, NoArg)>>
  /\ UNCHANGED nodeVars
  /\ UNCHANGED playerVars
  /\ UNCHANGED now

\* send(payload) called for each payload of a run in turn, nothing happening
\* in between
SendAll(n, payloads) ==
  /\ last' = [Last("Node.send run", n, Len(payloads), FALSE,
                   IF SendPasses(n) THEN "ok" ELSE "noop") EXCEPT !.stats = payloads]
  /\ cmds' = [i \in 1..Len(payloads) |-> NodeSend(n, "raw", Null, payloads[i])]
  /\ UNCHANGED nodeVars
  /\ UNCHANGED playerVars
  /\ UNCHANGED now

\* upgrade(msg): the one-shot handshake-accepted event
Upgrade(n, sessionResumed) ==
  /\ ws[n] = "handshake"
  /\ ws' = [ws EXCEPT ![n] = "upgraded"]
  /\ resumed' = IF sessionResumed THEN [resumed EXCEPT ![n] = "true"] ELSE resumed
  /\ last' = Last("upgrade", n, NoArg, sessionResumed, "ok")
  /\ cmds' = <<>>
  /\ UNCHANGED <<nodeState, retryAttempts, timers>>
  /\ UNCHANGED playerVars
  /\ UNCHANGED now

\* open(), with setupResuming()
Open(n) ==
  /\ ws[n] = "upgraded"
  /\ ws' = [ws EXCEPT ![n] = "open"]
  /\ nodeState' = [nodeState EXCEPT ![n] = CONNECTED]
  /\ cmds' = IF resumed[n] # "true" /\ Options[n].resumeKey
             THEN <<Cmd(n, "configureResuming", Null, NoArg, TRUE)>>
             ELSE <<>>
  /\ resumed' = [resumed EXCEPT ![n] = "undefined"]
  /\ last' = Last("open", n, NoArg, FALSE, "ok")
  /\ UNCHANGED <<retryAttempts, timers>>
  /\ UNCHANGED playerVars
  /\ UNCHANGED now

\* message({data}): forwarded raw to the event sink
Message(n) ==
  /\ ws[n] \in {"open", "closing"}
  /\ last' = Last("message", n, NoArg, FALSE, "ok")
  /\ cmds' = <<>>
  /\ UNCHANGED nodeVars
  /\ UNCHANGED playerVars
  /\ UNCHANGED now

ErrorDisconnects(n) ==
  /\ ws[n] # Null
  /\ nodeState' = [nodeState EXCEPT ![n] = DISCONNECTED]
  /\ last' = Last("error", n, NoArg, FALSE, "ok")
  /\ cmds' = <<>>
  /\ UNCHANGED <<retryAttempts, ws, resumed, timers>>
  /\ UNCHANGED playerVars
  /\ UNCHANGED now

\* error({error}): forwarded to the event sink
Error(n) ==
  /\ ws[n] # Null
  /\ last' = Last("error", n, NoArg, FALSE, "ok")
  /\ cmds' = <<>>
  /\ UNCHANGED nodeVars
  /\ UNCHANGED playerVars
  /\ UNCHANGED now

RetryScheduledInclusive(n, wasClean) ==
  ~wasClean /\ retryAttempts[n] <= MaxRetryAttemptsOf(n)

\* close(): whether it reaches the setTimeout of line 124
RetryScheduled(n, wasClean) ==
  ~wasClean /\ retryAttempts[n] < MaxRetryAttemptsOf(n)

\* close({code, reason, wasClean}). A close is clean only when both close
\* frames were exchanged, which takes a socket that had opened; the transport
\* fails at most until the node's attempt budget is used up.
Close(n, wasClean) ==
  /\ ws[n] # Null
  /\ wasClean => ws[n] \in {"open", "closing"}
  /\ ~wasClean => retryAttempts[n] <= MaxAttempts
  /\ nodeState' = [nodeState EXCEPT ![n] = DISCONNECTED]
  /\ ws' = [ws EXCEPT ![n] = Null]
  /\ timers' = IF RetryScheduled(n, wasClean)
               THEN [timers EXCEPT ![n] = @ + 1]
               ELSE timers
  /\ last' = Last("close", n, NoArg, wasClean, "ok")
  /\ cmds' = <<>>
  /\ UNCHANGED <<retryAttempts, resumed>>
  /\ UNCHANGED playerVars
  /\ UNCHANGED now

NodeNext ==
  \E n \in Nodes :
    \/ Connect(n)
    \/ TimerFire(n)
    \/ Disconnect(n)
    \/ Send(n)
    \/ \E sessionResumed \in BOOLEAN : Upgrade(n, sessionResumed)
    \/ Open(n)
    \/ Message(n)
    \/ Error(n)
    \/ \E wasClean \in BOOLEAN : Close(n, wasClean)

\* The application connects each node once and every attempt fails.
ConnectOnce(n) == retryAttempts[n] = -1 /\ Connect(n)

RetryNext ==
  \E n \in Nodes :
    \/ ConnectOnce(n)
    \/ TimerFire(n)
    \/ \E sessionResumed \in BOOLEAN : Upgrade(n, sessionResumed)
    \/ Open(n)
    \/ Error(n)
    \/ Close(n, FALSE)

\* ================================================================ Player
NoPlayer ==
  /\ players = FALSE
  /\ node = Undefined
  /\ voiceChannelId = FALSE
  /\ current = Null
  /\ queue = <<>>
  /\ trackRepeat = FALSE
  /\ position = 0
  /\ positionTimestamp = 0
  /\ playing = FALSE
  /\ paused = FALSE
  /\ state = DISCONNECTED
  /\ voiceState = FALSE
  /\ moving = "undefined"

NullRef == -2          \* JS null, where a Node reference is expected
Truthy(t) == t \in Tracks

RECURSIVE FilterNothing(_)
FilterNothing(k) == IF k = 0 THEN <<>> ELSE Append(FilterNothing(k - 1), k)

\* nodes.filter(n => n.state === NodeState.CONNECTED), in configuration order
RECURSIVE FilterConnected(_)
FilterConnected(k) ==
  IF k = 0 THEN <<>>
  ELSE IF nodeState[k] = CONNECTED THEN Append(FilterConnected(k - 1), k)
       ELSE FilterConnected(k - 1)

\* Array.prototype.sort((a, b) => a.stats.players - b.stats.players): stable,
\* an element goes after every element that does not compare greater.
RECURSIVE InsertSorted(_, _, _)
InsertSorted(x, s, stats) ==
  IF s = <<>> THEN <<x>>
  ELSE IF stats[Head(s)] - stats[x] > 0 THEN <<x>> \o s
       ELSE <<Head(s)>> \o InsertSorted(x, Tail(s), stats)

RECURSIVE SortByPlayers(_, _)
SortByPlayers(s, stats) ==
  IF s = <<>> THEN <<>>
  ELSE InsertSorted(s[Len(s)], SortByPlayers(SubSeq(s, 1, Len(s) - 1), stats), stats)

\* (...)[0]: undefined for an empty array
SelectNode(stats) ==
  LET sorted == SortByPlayers(FilterConnected(Cardinality(Nodes)), stats)
  IN IF sorted = <<>> THEN Undefined ELSE sorted[1]

\* new Player(vulkava, options)
CreatePlayer(stats, vc) ==
  /\ ~players
  /\ players' = TRUE
  /\ voiceChannelId' = vc
  /\ current' = Null
  /\ queue' = <<>>
  /\ trackRepeat' = FALSE
  /\ position' = 0
  /\ positionTimestamp' = 0
  /\ playing' = FALSE
  /\ paused' = FALSE
  /\ node' = SelectNode(stats)
  /\ state' = DISCONNECTED
  /\ voiceState' = FALSE
  /\ moving' = "undefined"
  /\ last' = [Last("new Player", SelectNode(stats), NoArg, vc, "ok") EXCEPT !.stats = stats]
  /\ cmds' = <<>>
  /\ UNCHANGED nodeVars
  /\ UNCHANGED now

\* connect()
PlayerConnect ==
  /\ players
  /\ IF state = CONNECTED
     THEN /\ last' = Last("connect", node, NoArg, FALSE, "noop")
          /\ cmds' = <<>>
          /\ UNCHANGED state
     ELSE IF node = NullRef
     THEN /\ last' = Last("connect", node, NoArg, FALSE, "Error: No available nodes!")
          /\ cmds' = <<>>
          /\ UNCHANGED state
     ELSE IF ~voiceChannelId
     THEN /\ last' = Last("connect", node, NoArg, FALSE, "Error: No voice channel id provided")
          /\ cmds' = <<>>
          /\ UNCHANGED state
     ELSE /\ state' = CONNECTING
          /\ cmds' = <<Cmd(Gateway, "op4 join", Null, NoArg, TRUE)>>
          /\ last' = Last("connect", node, NoArg, FALSE, "ok")
  /\ UNCHANGED <<players, node, voiceChannelId, current, queue, trackRepeat,
                 position, playing, paused, voiceState, moving>>
  /\ UNCHANGED nodeVars
  /\ UNCHANGED <<now, positionTimestamp>>

\* disconnect(): what it sends and the state it leaves
DisconnectCmds == IF state = DISCONNECTED THEN <<>>
                  ELSE <<Cmd(Gateway, "op4 leave", Null, NoArg, TRUE)>>

PlayerDisconnect ==
  /\ players
  /\ cmds' = DisconnectCmds
  /\ state' = DISCONNECTED
  /\ last' = Last("disconnect", node, NoArg, FALSE,
                  IF state = DISCONNECTED THEN "noop" ELSE "ok")
  /\ UNCHANGED <<players, node, voiceChannelId, current, queue, trackRepeat,
                 position, playing, paused, voiceState, moving>>
  /\ UNCHANGED nodeVars
  /\ UNCHANGED <<now, positionTimestamp>>

\* destroy(): this.node.send on an undefined node throws after disconnect()
Destroy ==
  /\ players
  /\ state' = DISCONNECTED
  /\ IF node = Undefined
     THEN /\ cmds' = DisconnectCmds
          /\ last' = Last("destroy", node, NoArg, FALSE, "TypeError")
          /\ UNCHANGED <<players, node, voiceChannelId, current, queue, trackRepeat,
                         position, playing, paused, voiceState, moving>>
     ELSE /\ cmds' = DisconnectCmds \o <<NodeSend(node, "destroy", Null, NoArg)>>
          /\ last' = Last("destroy", node, NoArg, FALSE, "ok")
          /\ players' = FALSE
          /\ node' = Undefined
          /\ voiceChannelId' = FALSE
          /\ current' = Null
          /\ queue' = <<>>
          /\ trackRepeat' = FALSE
          /\ position' = 0
          /\ playing' = FALSE
          /\ paused' = FALSE
          /\ voiceState' = FALSE
          /\ moving' = "undefined"
  /\ UNCHANGED nodeVars
  /\ UNCHANGED <<now, positionTimestamp>>

\* sendVoiceUpdate(): the payload
VoiceUpdateCmdToOld(n) == NodeSend(node, "voiceUpdate", Null, NoArg)

VoiceUpdateCmd(n) == NodeSend(n, "voiceUpdate", Null, NoArg)

MovePlayCmdFromStart(target) == NodeSend(target, "play", current, 0)

\* moveNode: the play payload of lines 163-170
MovePlayCmd(target) == NodeSend(target, "play", current, position)

MoveNodeCheckSkipsState(target) ==
  IF target = Undefined THEN "TypeError: You must provide a Node instance."
  ELSE IF node = target THEN "noop"
  ELSE "pass"

\* moveNode: the guards of lines 139-141
MoveNodeCheck(target) ==
  IF target = Undefined THEN "TypeError: You must provide a Node instance."
  ELSE IF nodeState[target] # CONNECTED THEN "Error: The provided node is not connected."
  ELSE IF node = target THEN "noop"
  ELSE "pass"

MoveStateAlways == CONNECTED

\* moveNode: the state after lines 152-158
MoveState == IF voiceState THEN CONNECTED ELSE state

\* moveNode(node); the flag of a completed move records that the Player was
\* CONNECTING when it was called
MoveNode(target) ==
  /\ players
  /\ IF MoveNodeCheck(target) # "pass"
     THEN /\ last' = Last("moveNode", target, NoArg, FALSE, MoveNodeCheck(target))
          /\ cmds' = <<>>
          /\ UNCHANGED <<node, state, moving>>
     ELSE IF node = Undefined
     THEN \* this.moving = true; this.node.send throws
          /\ moving' = "true"
          /\ last' = Last("moveNode", target, NoArg, FALSE, "TypeError")
          /\ cmds' = <<>>
          /\ UNCHANGED <<node, state>>
     ELSE /\ node' = target
          /\ state' = MoveState
          /\ moving' = IF playing /\ Truthy(current) THEN "true" ELSE "false"
          /\ cmds' = <<NodeSend(node, "destroy", Null, NoArg)>>
                     \o (IF voiceState THEN <<VoiceUpdateCmd(target)>> ELSE <<>>)
                     \o (IF playing /\ Truthy(current)
                         THEN <<MovePlayCmd(target)>>
                         ELSE <<>>)
          /\ last' = Last("moveNode", target, NoArg, state = CONNECTING, "ok")
  /\ UNCHANGED <<players, voiceChannelId, current, queue, trackRepeat,
                 position, playing, paused, voiceState>>
  /\ UNCHANGED nodeVars
  /\ UNCHANGED <<now, positionTimestamp>>

\* queue.shift(): the removed element, undefined for an empty array
Shifted(q) == IF q = <<>> THEN UndefinedTrack ELSE Head(q)
AfterShift(q) == IF q = <<>> THEN <<>> ELSE Tail(q)

PlayShiftsWithoutRepeat == ~trackRepeat

\* play(options): the track selection of lines 200-204
PlayShifts == ~Truthy(current) \/ ~trackRepeat
PlayCurrent == IF PlayShifts THEN Shifted(queue) ELSE current
PlayQueue == IF PlayShifts THEN AfterShift(queue) ELSE queue

QueueIsEmptyRepeatSlip == ~Truthy(current) /\ trackRepeat /\ Len(queue) = 0

\* play(options): the test of line 196
QueueIsEmpty == ~Truthy(current) /\ ~trackRepeat /\ Len(queue) = 0

Play(startTime) ==
  /\ players
  /\ IF node = NullRef
     THEN /\ last' = Last("play", node, NoArg, FALSE, "Error: No available nodes!")
          /\ cmds' = <<>>
          /\ UNCHANGED <<current, queue>>
     ELSE IF QueueIsEmpty
     THEN /\ last' = Last("play", node, NoArg, FALSE, "Error: The queue is empty!")
          /\ cmds' = <<>>
          /\ UNCHANGED <<current, queue>>
     ELSE /\ current' = PlayCurrent
          /\ queue' = PlayQueue
          /\ IF node = Undefined \/ ~Truthy(PlayCurrent)
             THEN \* this.node.send / this.current.encodedTrack throws
                  /\ last' = Last("play", node, startTime, FALSE, "TypeError")
                  /\ cmds' = <<>>
             ELSE /\ last' = Last("play", node, startTime, FALSE, "ok")
                  /\ cmds' = <<NodeSend(node, "play", PlayCurrent, startTime)>>
  /\ UNCHANGED <<players, node, voiceChannelId, trackRepeat,
                 position, playing, paused, state, voiceState, moving>>
  /\ UNCHANGED nodeVars
  /\ UNCHANGED <<now, positionTimestamp>>

\* setTrackLoop(state)
SetTrackLoop(b) ==
  /\ players
  /\ trackRepeat' = b
  /\ last' = Last("setTrackLoop", node, NoArg, b, "ok")
  /\ cmds' = <<>>
  /\ UNCHANGED <<players, node, voiceChannelId, current, queue,
                 position, playing, paused, state, voiceState, moving>>
  /\ UNCHANGED nodeVars
  /\ UNCHANGED <<now, positionTimestamp>>

SplicedOffByOne(q, amount) ==
  IF amount <= 0 THEN q
  ELSE IF amount >= Len(q) THEN <<>>
       ELSE SubSeq(q, amount, Len(q))

\* queue.splice(0, amount): a negative deleteCount removes nothing
Spliced(q, amount) ==
  IF amount <= 0 THEN q
  ELSE IF amount >= Len(q) THEN <<>>
       ELSE SubSeq(q, amount + 1, Len(q))

\* skip(amount): lines 237-241
SkipQueue(q, amount) == IF amount >= Len(q) THEN <<>> ELSE Spliced(q, amount)

\* skip(amount), from its guard on; op names the caller
SkipBody(op, amount, arg) ==
  IF ~playing
  THEN /\ last' = Last(op, node, NoArg, FALSE, "noop")
       /\ cmds' = <<>>
       /\ UNCHANGED queue
  ELSE /\ queue' = SkipQueue(queue, amount)
       /\ IF node = Undefined
          THEN /\ last' = Last(op, node, arg, FALSE, "TypeError")
               /\ cmds' = <<>>
          ELSE /\ last' = Last(op, node, arg, FALSE, "ok")
               /\ cmds' = <<NodeSend(node, "stop", Null, NoArg)>>

Skip(amount) ==
  /\ players
  /\ SkipBody("skip", amount, amount)
  /\ UNCHANGED <<players, node, voiceChannelId, current, trackRepeat,
                 position, playing, paused, state, voiceState, moving>>
  /\ UNCHANGED nodeVars
  /\ UNCHANGED <<now, positionTimestamp>>

\* pause(state)
Pause(b) ==
  /\ players
  /\ paused' = b
  /\ IF node = Undefined
     THEN /\ last' = Last("pause", node, NoArg, b, "TypeError")
          /\ cmds' = <<>>
     ELSE /\ last' = Last("pause", node, NoArg, b, "ok")
          /\ cmds' = <<NodeSend(node, "pause", Null, IF b THEN 1 ELSE 0)>>
  /\ UNCHANGED <<players, node, voiceChannelId, current, queue, trackRepeat,
                 position, playing, state, voiceState, moving>>
  /\ UNCHANGED nodeVars
  /\ UNCHANGED <<now, positionTimestamp>>

SeekSkipsAtEnd(pos) == pos >= Duration(current)

\* seek(position): the test of line 277
SeekSkips(pos) == pos > Duration(current)

\* seek(position)
Seek(pos) ==
  /\ players
  /\ IF ~playing \/ ~Truthy(current)
     THEN /\ last' = Last("seek", node, NoArg, FALSE, "noop")
          /\ cmds' = <<>>
          /\ UNCHANGED queue
     ELSE IF SeekSkips(pos)
     THEN SkipBody("seek", 1, pos)
     ELSE /\ UNCHANGED queue
          /\ IF node = Undefined
             THEN /\ last' = Last("seek", node, pos, FALSE, "TypeError")
                  /\ cmds' = <<>>
             ELSE /\ last' = Last("seek", node, pos, FALSE, "ok")
                  /\ cmds' = <<NodeSend(node, "seek", Null, pos)>>
  /\ UNCHANGED <<players, node, voiceChannelId, current, trackRepeat,
                 position, playing, paused, state, voiceState, moving>>
  /\ UNCHANGED nodeVars
  /\ UNCHANGED <<now, positionTimestamp>>

\* sendVoiceUpdate()
SendVoiceUpdate ==
  /\ players
  /\ IF node = Undefined
     THEN /\ last' = Last("sendVoiceUpdate", node, NoArg, FALSE, "TypeError")
          /\ cmds' = <<>>
     ELSE /\ last' = Last("sendVoiceUpdate", node, NoArg, FALSE, "ok")
          /\ cmds' = <<VoiceUpdateCmd(node)>>
  /\ UNCHANGED playerVars
  /\ UNCHANGED nodeVars
  /\ UNCHANGED now

\* updatePlayer(state): pos = NoArg is a report without a position
UpdatePlayer(pos, connected) ==
  /\ players
  /\ position' = IF pos # NoArg /\ pos # 0 THEN pos ELSE position
  /\ state' = IF connected THEN CONNECTED ELSE DISCONNECTED
  /\ last' = Last("updatePlayer", node, pos, connected, "ok")
  /\ cmds' = <<>>
  /\ UNCHANGED <<players, node, voiceChannelId, current, queue, trackRepeat,
                 playing, paused, voiceState, moving>>
  /\ UNCHANGED nodeVars
  /\ UNCHANGED <<now, positionTimestamp>>

\* get exactPosition()
ExactPosition == position + (now - positionTimestamp)

\* wall-clock time passes
Tick ==
  /\ now < MaxNow
  /\ now' = now + 1
  /\ last' = Last("tick", Undefined, NoArg, FALSE, "ok")
  /\ cmds' = <<>>
  /\ UNCHANGED playerVars
  /\ UNCHANGED nodeVars

\* ---- the owner of the Player writing its public fields
\* queue.push(track)
Enqueue(t) ==
  /\ players
  /\ Len(queue) < MaxQueue
  /\ t # current /\ \A i \in 1..Len(queue) : queue[i] # t
  /\ queue' = Append(queue, t)
  /\ last' = Last("queue.push", node, NoArg, FALSE, "ok")
  /\ cmds' = <<>>
  /\ UNCHANGED <<players, node, voiceChannelId, current, trackRepeat,
                 position, playing, paused, state, voiceState, moving>>
  /\ UNCHANGED nodeVars
  /\ UNCHANGED <<now, positionTimestamp>>

\* voiceState = {sessionId, token, endpoint}, supplied by the voice gateway
SetVoiceState ==
  /\ players
  /\ ~voiceState
  /\ voiceState' = TRUE
  /\ last' = Last("voiceState", node, NoArg, FALSE, "ok")
  /\ cmds' = <<>>
  /\ UNCHANGED <<players, node, voiceChannelId, current, queue, trackRepeat,
                 position, playing, paused, state, moving>>
  /\ UNCHANGED nodeVars
  /\ UNCHANGED <<now, positionTimestamp>>

\* playing = true / false: the Player's node reports that the current track
\* started or ended
SetPlaying(b) ==
  /\ players
  /\ playing # b
  /\ b => node # Undefined /\ nodeState[node] = CONNECTED /\ Truthy(current)
  /\ playing' = b
  /\ last' = Last("playing", node, NoArg, b, "ok")
  /\ cmds' = <<>>
  /\ UNCHANGED <<players, node, voiceChannelId, current, queue, trackRepeat,
                 position, paused, state, voiceState, moving>>
  /\ UNCHANGED nodeVars
  /\ UNCHANGED <<now, positionTimestamp>>

\* A node as constructed, connecting, or connected by its first attempt.
NodeAs(n, s) ==
  /\ nodeState[n] = s
  /\ retryAttempts[n] = IF s = DISCONNECTED THEN -1 ELSE 0
  /\ ws[n] = IF s = DISCONNECTED THEN Null ELSE IF s = CONNECTING THEN "handshake" ELSE "open"

PlayerInit ==
  /\ nodeState \in [Nodes -> State]
  /\ retryAttempts \in [Nodes -> {-1, 0}]
  /\ ws \in [Nodes -> {Null, "handshake", "open"}]
  /\ \A n \in Nodes : NodeAs(n, nodeState[n])
  /\ resumed = [n \in Nodes |-> "undefined"]
  /\ timers = [n \in Nodes |-> 0]
  /\ NoPlayer
  /\ now = 1
  /\ last = Last("init", Undefined, NoArg, FALSE, "ok")
  /\ cmds = <<>>

\* The Player without migration: creation, voice connection, the queue and
\* the playback commands.
PlayerNext ==
  \/ \E stats \in [Nodes -> Loads], vc \in BOOLEAN : CreatePlayer(stats, vc)
  \/ PlayerConnect
  \/ PlayerDisconnect
  \/ Destroy
  \/ \E startTime \in {NoArg, MaxPos} : Play(startTime)
  \/ \E b \in BOOLEAN : SetTrackLoop(b)
  \/ \E amount \in -1..MaxAmount : Skip(amount)
  \/ \E b \in BOOLEAN : Pause(b)
  \/ \E pos \in 0..(MaxPos + 1) : Seek(pos)
  \/ SendVoiceUpdate
  \/ \E t \in Tracks : Enqueue(t)
  \/ \E b \in BOOLEAN : SetPlaying(b)

PlayerSpec == PlayerInit /\ [][PlayerNext]_vars

\* Migration: a Player with its voice credentials and status reports, moved
\* between the Nodes.
MoveNext ==
  \/ \E stats \in [Nodes -> Loads], vc \in BOOLEAN : CreatePlayer(stats, vc)
  \/ \E target \in Nodes \cup {Undefined} : MoveNode(target)
  \/ \E startTime \in {NoArg, MaxPos} : Play(startTime)
  \/ \E pos \in {NoArg} \cup 0..MaxPos, connected \in BOOLEAN : UpdatePlayer(pos, connected)
  \/ \E t \in Tracks : Enqueue(t)
  \/ SetVoiceState
  \/ \E b \in BOOLEAN : SetPlaying(b)

MoveSpec == PlayerInit /\ [][MoveNext]_vars

\* The voice connection: a Player joining and leaving its channel, receiving
\* voice credentials and status reports, and being moved or commanded
\* meanwhile.
StateNext ==
  \/ \E stats \in [Nodes -> Loads], vc \in BOOLEAN : CreatePlayer(stats, vc)
  \/ PlayerConnect
  \/ PlayerDisconnect
  \/ \E target \in Nodes \cup {Undefined} : MoveNode(target)
  \/ \E connected \in BOOLEAN : UpdatePlayer(NoArg, connected)
  \/ SetVoiceState
  \/ SendVoiceUpdate
  \/ Play(NoArg)
  \/ \E b \in BOOLEAN : Pause(b)
  \/ \E pos \in 0..(MaxPos + 1) : Seek(pos)
  \/ \E amount \in 1..MaxAmount : Skip(amount)
  \/ \E t \in Tracks : Enqueue(t)

StateSpec == PlayerInit /\ [][StateNext]_vars

\* The reported position and the wall clock.
PositionNext ==
  \/ \E stats \in [Nodes -> Loads], vc \in BOOLEAN : CreatePlayer(stats, vc)
  \/ \E pos \in {NoArg} \cup 0..MaxPos, connected \in BOOLEAN : UpdatePlayer(pos, connected)
  \/ Tick

PositionSpec == PlayerInit /\ [][PositionNext]_vars

\* Runs of send() on Nodes in each connection state.
Payloads == 1..MaxSends
PayloadRuns == UNION {[1..k -> Payloads] : k \in 1..MaxSends}

SendNext == \E n \in Nodes, payloads \in PayloadRuns : SendAll(n, payloads)

SendSpec == PlayerInit /\ [][SendNext]_vars

NodeInitAll ==
  /\ NodeInit
  /\ NoPlayer
  /\ now = 1
  /\ last = Last("init", Undefined, NoArg, FALSE, "ok")
  /\ cmds = <<>>

NodeSpec == NodeInitAll /\ [][NodeNext]_vars

RetrySpec == NodeInitAll /\ [][RetryNext]_vars

\* ================================================================ claims
\* The last operation was op.
Did(op) == last.op = op

\* C1: after an unclean close a reconnect is scheduled iff retryAttempts <
\* maxRetryAttempts (default 10) at the time of the close; the close handler
\* schedules nothing after a clean close.
C1_CloseSchedulesRetry ==
  [][\A n \in Nodes :
       (last'.op = "close" /\ last'.node = n) =>
         /\ timers'[n] \in {timers[n], timers[n] + 1}
         /\ (timers'[n] = timers[n] + 1) <=>
              (~last'.flag /\
               retryAttempts[n] < (IF Options[n].maxRetryAttempts = "undefined" THEN 10
                                   ELSE IF Options[n].maxRetryAttempts = "1" THEN 1 ELSE 0))
         /\ \A m \in Nodes \ {n} : timers'[m] = timers[m]]_vars

\* An unclean close at the retry maximum: nothing is scheduled.
C1_Witness ==
  \E n \in Nodes :
    /\ Did("close") /\ last.node = n /\ ~last.flag
    /\ retryAttempts[n] >= MaxRetryAttemptsOf(n)
    /\ timers[n] = 0

\* C2: retryAttempts never decreases and is never reset; it grows by exactly
\* one on every connect() that proceeds from DISCONNECTED (called by the
\* application or by the retry timer) and nothing else changes it.
C2_RetryAttemptsCountsConnects ==
  [][\A n \in Nodes :
       IF last'.op \in {"Node.connect", "timer"} /\ last'.node = n
          /\ nodeState[n] = DISCONNECTED
       THEN retryAttempts'[n] = retryAttempts[n] + 1
       ELSE retryAttempts'[n] = retryAttempts[n]]_vars

\* A retry timer fires on a connected node: connect() returns at its guard.
C2_Witness ==
  \E n \in Nodes :
    /\ Did("timer") /\ last.node = n /\ last.result = "noop"
    /\ nodeState[n] = CONNECTED
    /\ retryAttempts[n] >= 1

\* C3: the node of a new Player is the CONNECTED node with the least
\* stats.players, the first such node in configuration order; a node that is
\* not CONNECTED is never selected.
C3_SelectsLeastLoadedConnected ==
  Did("new Player") =>
    LET connected == {n \in Nodes : nodeState[n] = CONNECTED}
    IN  IF connected = {} THEN node = Undefined
        ELSE /\ node \in connected
             /\ \A m \in connected :
                  \/ last.stats[node] < last.stats[m]
                  \/ last.stats[node] = last.stats[m] /\ node <= m

\* Loads {5,2,8} with only nodes 1 and 3 CONNECTED: the node with load 5.
C3_Witness ==
  /\ Did("new Player")
  /\ last.stats = <<5, 2, 8>>
  /\ nodeState[1] = CONNECTED /\ nodeState[2] # CONNECTED /\ nodeState[3] = CONNECTED
  /\ node = 1

\* C4: on a Player created while no node was CONNECTED, connect() and play()
\* fail with 'No available nodes!' and send nothing.
C4_NoNodeFailsExplicitly ==
  (players /\ node = Undefined /\ (Did("connect") \/ Did("play"))) =>
    /\ last.result = "Error: No available nodes!"
    /\ cmds = <<>>
    /\ state = DISCONNECTED

\* C5: moveNode(target) of a Player that has a node, to another CONNECTED
\* node: when the Player is playing a current track, the last thing it does is
\* write one play command for that track, with startTime = position, to the
\* target, and moving is still true when it returns; when it is not playing,
\* no play command is issued and moving is false when it returns.
C5_MoveNodeResumesPlayback ==
  [][(last'.op = "moveNode" /\ node # Undefined /\ last'.node # Undefined
      /\ nodeState[last'.node] = CONNECTED /\ last'.node # node) =>
       LET plays == {i \in 1..Len(cmds') : cmds'[i].op = "play"}
       IN  IF playing /\ current \in Tracks
           THEN /\ plays = {Len(cmds')}
                /\ cmds'[Len(cmds')] =
                     [to |-> last'.node, op |-> "play", track |-> current,
                      arg |-> position, written |-> TRUE]
                /\ moving' = "true"
           ELSE /\ plays = {}
                /\ moving' = "false"]_vars

\* A playing Player at a reported position was moved.
C5_Witness ==
  /\ Did("moveNode") /\ last.result = "ok"
  /\ playing /\ position = MaxPos
  /\ moving = "true"
  /\ cmds[Len(cmds)].op = "play" /\ cmds[Len(cmds)].arg = MaxPos

\* C6: moveNode(target) fails when target is absent or not CONNECTED and
\* returns at once when target is a CONNECTED node that is already the
\* Player's node; either way the Player is unchanged and nothing is sent.
C6_MoveNodeRejects ==
  [][last'.op = "moveNode" =>
       LET target == last'.node
       IN  /\ target = Undefined =>
                last'.result = "TypeError: You must provide a Node instance."
           /\ (target # Undefined /\ nodeState[target] # CONNECTED) =>
                last'.result = "Error: The provided node is not connected."
           /\ (target # Undefined /\ nodeState[target] = CONNECTED /\ target = node) =>
                last'.result = "noop"
           /\ (target = Undefined \/ nodeState[target] # CONNECTED \/ target = node) =>
                /\ cmds' = <<>>
                /\ UNCHANGED playerVars]_vars

\* moveNode to a node that is not CONNECTED, on a playing Player with voice
\* credentials.
C6_Witness ==
  /\ Did("moveNode")
  /\ last.result = "Error: The provided node is not connected."
  /\ node # Undefined /\ last.node # node
  /\ playing /\ voiceState

\* C7: a play() that passes the empty-queue test takes the front of the queue
\* as current when there is no current track or track-repeat is off (the rest
\* of the queue keeps its order), and keeps current and the queue when there is
\* a current track and track-repeat is on; a play command it sends carries
\* the resulting current track.
C7_PlaySelectsTrack ==
  [][(last'.op = "play" /\ last'.result \in {"ok", "TypeError"}) =>
       /\ IF current \notin Tracks \/ ~trackRepeat
          THEN queue # <<>> =>
                 /\ current' = queue[1]
                 /\ queue' = [i \in 1..(Len(queue) - 1) |-> queue[i + 1]]
          ELSE current' = current /\ queue' = queue
       /\ last'.result = "ok" => Len(cmds') = 1
       /\ \A i \in 1..Len(cmds') :
            /\ cmds'[i].op = "play" /\ cmds'[i].to = node
            /\ cmds'[i].track = current' /\ current' \in Tracks]_vars

\* play() with track-repeat off took A from the queue [A, B].
C7_Witness ==
  /\ Did("play") /\ last.result = "ok"
  /\ ~trackRepeat
  /\ current = "A" /\ queue = <<"B">>
  /\ cmds = <<Cmd(node, "play", "A", last.arg, nodeState[node] = CONNECTED)>>

\* C8: play() with no current track, track-repeat off and an empty queue
\* throws 'The queue is empty!', leaves current and the queue alone and sends
\* nothing.
C8_PlayEmptyQueueFails ==
  [][(last'.op = "play" /\ current \notin Tracks /\ ~trackRepeat /\ queue = <<>>) =>
       /\ last'.result = "Error: The queue is empty!"
       /\ cmds' = <<>>
       /\ UNCHANGED playerVars]_vars

\* The error was thrown on a Player that has a node.
C8_Witness ==
  /\ Did("play") /\ last.result = "Error: The queue is empty!"
  /\ node # Undefined
  /\ current = Null /\ queue = <<>> /\ ~trackRepeat

\* C9: skip(amount) does nothing when the Player is not playing; when it is
\* playing, skip(amount >= 0) removes the first amount tracks of the queue
\* (all of them when amount >= the queue's length), keeps the order of the
\* rest, and then issues exactly one stop command.
C9_SkipDropsFront ==
  [][last'.op = "skip" =>
       IF ~playing
       THEN /\ last'.result = "noop"
            /\ cmds' = <<>>
            /\ UNCHANGED playerVars
       ELSE LET amount == last'.arg
            IN  /\ amount >= 0 =>
                     queue' = IF amount >= Len(queue) THEN <<>>
                              ELSE [i \in 1..(Len(queue) - amount) |-> queue[i + amount]]
                /\ cmds' = <<[to |-> node, op |-> "stop", track |-> Null,
                              arg |-> NoArg, written |-> nodeState[node] = CONNECTED]>>
                /\ UNCHANGED <<players, node, voiceChannelId, current, trackRepeat,
                               position, playing, paused, state, voiceState, moving>>]_vars

\* skip(2) left [C].
C9_Witness ==
  /\ Did("skip") /\ last.arg = 2 /\ last.result = "ok"
  /\ queue = <<"C">>
  /\ Len(cmds) = 1 /\ cmds[1].op = "stop"

\* C10: on a playing Player with a current track, seek(position) beyond the
\* track's duration does what skip() does (the front of the queue is dropped,
\* one stop command, no seek command); seek(position <= duration) issues
\* one seek command with that position; the queue is unchanged.
C10_SeekBeyondEndSkips ==
  [][(last'.op = "seek" /\ playing /\ current \in Tracks) =>
       LET pos == last'.arg
       IN  /\ IF pos > Duration(current)
              THEN /\ queue' = IF 1 >= Len(queue) THEN <<>>
                               ELSE [i \in 1..(Len(queue) - 1) |-> queue[i + 1]]
                   /\ cmds' = <<[to |-> node, op |-> "stop", track |-> Null,
                                 arg |-> NoArg, written |-> nodeState[node] = CONNECTED]>>
              ELSE /\ queue' = queue
                   /\ cmds' = <<[to |-> node, op |-> "seek", track |-> Null,
                                 arg |-> pos, written |-> nodeState[node] = CONNECTED]>>
           /\ UNCHANGED <<players, node, voiceChannelId, current, trackRepeat,
                          position, playing, paused, state, voiceState, moving>>]_vars

\* seek past the end of the current track dropped the front of a queue of two.
C10_Witness ==
  /\ Did("seek") /\ last.result = "ok"
  /\ current \in Tracks /\ last.arg > Duration(current)
  /\ Len(queue) = 1
  /\ Len(cmds) = 1 /\ cmds[1].op = "stop"

\* C11: updatePlayer with a position p >= 0 sets position to p and
\* positionTimestamp to the current time, so that exactPosition read at that
\* instant is p.
C11_UpdateSetsPositionAndTimestamp ==
  (Did("updatePlayer") /\ last.arg >= 0) =>
    /\ position = last.arg
    /\ positionTimestamp = now
    /\ ExactPosition = last.arg

\* C12: send() on a node that is not CONNECTED writes nothing, raises nothing
\* and leaves the node as it is; on a CONNECTED node the payloads of successive
\* sends are written in the order of the calls.
C12_SendDropsUnlessConnected ==
  [][last'.op = "Node.send run" =>
       LET n == last'.node
       IN  /\ UNCHANGED nodeVars
           /\ Len(cmds') = Len(last'.stats)
           /\ \A i \in 1..Len(cmds') :
                /\ cmds'[i].to = n /\ cmds'[i].op = "raw"
                /\ cmds'[i].written = (nodeState[n] = CONNECTED)
                /\ cmds'[i].arg = last'.stats[i]
           /\ last'.result = IF nodeState[n] = CONNECTED THEN "ok" ELSE "noop"]_vars

\* Two different payloads were sent, second one first, to a connecting node.
C12_Witness ==
  /\ Did("Node.send run")
  /\ nodeState[last.node] = CONNECTING
  /\ Len(cmds) = 2 /\ cmds[1].arg = 2 /\ cmds[2].arg = 1
  /\ ~cmds[1].written /\ ~cmds[2].written

\* C13: after the application's disconnect() the node is not reconnected
\* automatically: a node that disconnect() has left DISCONNECTED leaves that
\* state only by the application's connect(), whatever reconnect was pending
\* (stated for the step that follows the disconnect()).
C13_NoReconnectAfterDisconnect ==
  [][\A n \in Nodes :
       (Did("Node.disconnect") /\ last.node = n
        /\ nodeState[n] = DISCONNECTED /\ nodeState'[n] # DISCONNECTED) =>
         last'.op = "Node.connect"]_vars

\* C14 as claimed: connected once by the application and failing every time,
\* a node (with a retry maximum of at least 1) makes at most maxRetryAttempts
\* connection attempts; retryAttempts + 1 is the number of attempts made.
C14_AtMostMaxAttempts ==
  \A n \in Nodes :
    MaxRetryAttemptsOf(n) >= 1 => retryAttempts[n] + 1 <= MaxRetryAttemptsOf(n)

\* C14 as amended: such a node makes at most maxRetryAttempts + 1 attempts,
\* the first one and maxRetryAttempts retries, with never more than one
\* reconnect pending, and after the last one it is DISCONNECTED with none.
C14_AtMostMaxRetries ==
  \A n \in Nodes :
    /\ retryAttempts[n] + 1 <= MaxRetryAttemptsOf(n) + 1
    /\ timers[n] <= 1
    /\ (nodeState[n] = DISCONNECTED /\ retryAttempts[n] = MaxRetryAttemptsOf(n)) =>
         timers[n] = 0

\* The last retry of a node with a maximum of 1 has failed: two attempts.
C14_Witness ==
  \E n \in Nodes :
    /\ Did("close") /\ last.node = n
    /\ MaxRetryAttemptsOf(n) = 1 /\ retryAttempts[n] = 1
    /\ nodeState[n] = DISCONNECTED /\ timers[n] = 0

\* C15: on the open of a connection of a node with a resume key,
\* configureResuming is sent iff the handshake of that same connection did not
\* signal a resumed session, whatever an earlier connection's handshake
\* signalled (stated for an open that directly follows its handshake).
C15_ResumingConfiguredPerConnection ==
  [][\A n \in Nodes :
       (Did("upgrade") /\ last.node = n /\ last'.op = "open" /\ last'.node = n
        /\ Options[n].resumeKey) =>
         /\ (\E i \in 1..Len(cmds') : cmds'[i].op = "configureResuming") <=> ~last.flag
         /\ resumed'[n] = "undefined"]_vars

\* C16: a node has at most one connection attempt or live transport at a
\* time. A connect(), called by the application or by a retry timer, on a node
\* that is CONNECTING or CONNECTED changes neither the transport, the state nor
\* the retry counter; no step creates a transport while the node holds one; a
\* transport is created only from DISCONNECTED, by one connect() that counts
\* one attempt.
C16_OneTransportAtATime ==
  [][\A n \in Nodes :
       /\ (nodeState[n] # DISCONNECTED /\ last'.op \in {"Node.connect", "timer"}
           /\ last'.node = n) =>
            /\ ws'[n] = ws[n]
            /\ nodeState'[n] = nodeState[n]
            /\ retryAttempts'[n] = retryAttempts[n]
            /\ last'.result = "noop"
       /\ ws[n] # Null =>
            /\ ws'[n] = "handshake" => ws[n] = "handshake"
            /\ retryAttempts'[n] = retryAttempts[n]
       /\ (ws[n] = Null /\ ws'[n] # Null) =>
            /\ nodeState[n] = DISCONNECTED
            /\ last'.op \in {"Node.connect", "timer"} /\ last'.node = n
            /\ ws'[n] = "handshake"
            /\ nodeState'[n] = CONNECTING
            /\ retryAttempts'[n] = retryAttempts[n] + 1]_vars

\* two retry timers were pending; the first opened a transport, the second
\* fired while that transport was still connecting
C16_Witness ==
  \E n \in Nodes :
    /\ Did("timer") /\ last.node = n /\ last.result = "noop"
    /\ nodeState[n] = CONNECTING /\ ws[n] = "handshake"
    /\ retryAttempts[n] = 2

\* C17: a node holds a transport handle exactly when its state is CONNECTING
\* or CONNECTED; every close event, clean or not, leaves the node DISCONNECTED
\* without a handle; an error event changes neither the state nor the handle.
C17_HandleIffConnectingOrConnected ==
  /\ [](\A n \in Nodes : ws[n] # Null <=> nodeState[n] \in {CONNECTING, CONNECTED})
  /\ [][\A n \in Nodes :
          /\ (last'.op = "close" /\ last'.node = n) =>
               nodeState'[n] = DISCONNECTED /\ ws'[n] = Null
          /\ (last'.op = "error" /\ last'.node = n) =>
               nodeState'[n] = nodeState[n] /\ ws'[n] = ws[n]]_vars

\* an error event on a transport that is still connecting
C17_Witness ==
  \E n \in Nodes :
    /\ Did("error") /\ last.node = n
    /\ nodeState[n] = CONNECTING /\ ws[n] = "upgraded"

\* C18: a moveNode(target) of a Player that has a node, to another node that
\* is CONNECTED, makes its sends in this order, each at most once: one destroy
\* to the old node; then, only with voice credentials, one voiceUpdate to
\* target, the Player ending CONNECTED; then, only when playing a track, one
\* play to target. The Player's node becomes target; the old node gets no
\* voiceUpdate or play and target gets no destroy.
C18_MoveNodeCommandOrder ==
  [][(last'.op = "moveNode" /\ node # Undefined /\ last'.node # Undefined
      /\ nodeState[last'.node] = CONNECTED /\ last'.node # node) =>
       LET target == last'.node
           sent(op) == {i \in 1..Len(cmds') : cmds'[i].op = op}
           plays == playing /\ current \in Tracks
       IN  /\ last'.result = "ok"
           /\ node' = target
           /\ sent("destroy") = {1}
           /\ sent("voiceUpdate") = IF voiceState THEN {2} ELSE {}
           /\ sent("play") = IF plays THEN {IF voiceState THEN 3 ELSE 2} ELSE {}
           /\ Len(cmds') = Cardinality(sent("destroy") \cup sent("voiceUpdate")
                                       \cup sent("play"))
           /\ \A i \in 1..Len(cmds') :
                /\ cmds'[i].to = IF i = 1 THEN node ELSE target
                /\ i > 1 => cmds'[i].written
           /\ state' = IF voiceState THEN CONNECTED ELSE state]_vars

\* A playing Player with voice credentials was moved: three commands.
C18_Witness ==
  /\ Did("moveNode") /\ last.result = "ok"
  /\ voiceState /\ playing /\ current \in Tracks
  /\ state = CONNECTED /\ node = last.node
  /\ Len(cmds) = 3 /\ cmds[1].to # node /\ cmds[2].op = "voiceUpdate"

\* C19 as stated: a Player goes from CONNECTING to CONNECTED only by an
\* updatePlayer with connected = true; connect() leaves it CONNECTING.
C19_OnlyUpdatePlayerConnects ==
  [][/\ (state = CONNECTING /\ state' = CONNECTED) =>
          (last'.op = "updatePlayer" /\ last'.flag)
     /\ (last'.op = "connect" /\ last'.result = "ok") => state' = CONNECTING]_vars

\* C19, amended: a Player goes from CONNECTING to CONNECTED only by an
\* updatePlayer with connected = true or by a completed moveNode of a Player
\* that has voice credentials; connect() leaves it CONNECTING, and play,
\* pause, seek, skip and sendVoiceUpdate leave the state as it is.
C19_UpdatePlayerOrMoveNodeConnects ==
  [][/\ (state = CONNECTING /\ state' = CONNECTED) =>
          \/ last'.op = "updatePlayer" /\ last'.flag
          \/ last'.op = "moveNode" /\ last'.result = "ok" /\ voiceState
     /\ (last'.op = "connect" /\ last'.result = "ok") => state' = CONNECTING
     /\ last'.op \in {"play", "pause", "seek", "skip", "sendVoiceUpdate"} =>
          state' = state]_vars

\* a CONNECTING Player with voice credentials was moved and is CONNECTED
C19_Witness ==
  /\ Did("moveNode") /\ last.result = "ok" /\ last.flag
  /\ voiceState /\ state = CONNECTED /\ node = last.node

\* C20: after a play() of a Player that has a node, unless it failed with the
\* empty-queue error, the current track is a real track and the one play
\* command sent carries it, whatever current, trackRepeat and the queue were.
C20_PlayLeavesRealTrack ==
  (Did("play") /\ node \in Nodes /\ last.result # "Error: The queue is empty!") =>
    /\ current \in Tracks
    /\ Len(cmds) = 1
    /\ cmds[1].op = "play" /\ cmds[1].track = current
====
